---- MODULE Spec2Model ----
(***************************************************************************)
(* EduTheo backend: the activity log (attempt numbering) and the           *)
(* query-limited AI chat session (daily quota, agent loop, streaming).     *)
(***************************************************************************)
EXTENDS Integers, Sequences, FiniteSets, TLC

\* ------------------------------------------------------------------ bounds

MaxRows == 4
NumUsers == 2
NumQuestions == 2
NumWorkers == 2
NumSockets == 2
MaxSubmissions == 2

Users == 1..NumUsers
Questions == 1..NumQuestions
Workers == 1..NumWorkers
Sockets == 1..NumSockets

\* ------------------------------------------------------------ state

VARIABLES
    activities,   \* the user_activities table, rows in insertion (id) order
    worker,       \* per worker: the record_user_activity call it is running
    today,        \* date.today()
    dbUser,       \* the user's row as committed in the users table
    user,         \* AIChatService.user: the session's copy of that row
    apiKey,       \* settings.gemini_api_key is set
    agentExecutor,\* AIChatService.agent_executor is not None
    conn,         \* the chat service / websocket: "closed" or "open"
    mode,         \* "atomic" (get_ai_response) or "stream" (get_ai_response_stream)
    pc,           \* where the handling of the current message stands
    message,      \* the message being handled
    reqToday,     \* local `today` of _verify_query_limit
    iterations,   \* AgentExecutor's iteration counter during invoke
    lastTool,     \* the tool the agent ran last during invoke
    response,     \* what agent_executor.invoke returned
    outputText,   \* output_text
    pos,          \* index of the next character to yield
    chunks,       \* the chunks yielded so far for this message
    reply,        \* the string get_ai_response returned
    signal,       \* status code of the HTTPException raised, 0 if none
    outcome,      \* how the handling of the message ended
    atStart,      \* history: the stored row when the message arrived
    afterCheck,   \* history: the stored row right after the rollover check
    invoked,      \* history: agent_executor.invoke was called for the message
    agentReturned,\* history: agent_executor.invoke returned normally
    served,       \* history: messages received so far
    dbSession,    \* the websocket endpoint's database session: "open" or "closed"
    cancelled,    \* the client went away while the answer was being streamed
    catalog,      \* the questions table: question id -> row
    req,          \* the check_answer request in progress
    answerResponse, \* what the last check_answer call gave its client
    registry,     \* the hub's set of registered connections
    sock,         \* per analytics websocket: the state of client and handler
    inbox,        \* per analytics websocket: the messages its client received
    bcast,        \* the broadcast in progress, or the last one finished
    selection     \* the last question query and what it returned

actVars == <<activities, worker>>

restVars == <<catalog, req, answerResponse, registry, sock, inbox, bcast,
              selection>>

VARIABLES
    marks,        \* the marks table, a set of rows
    marker        \* per worker: the create_mark call it is running

VARIABLES
    questionRows, \* the questions table as the import script fills it
    entries,      \* history: per external id, the entry imported last
    fetched       \* what get_question_by_question_id returned last, with
                  \* the entry imported last under that id at that moment

importVars == <<questionRows, entries, fetched>>

VARIABLES
    analytics     \* what get_detailed_analytics returned last, and for whom

VARIABLES
    peer          \* a second chat session of the same user: its connection,
                  \* its copy of the user row, where it stands, its counts

sideVars == <<marks, marker, importVars, analytics, peer>>

chatVars == <<today, dbUser, user, apiKey, agentExecutor, conn, mode, pc, message,
              reqToday, iterations, lastTool, response, outputText, pos, chunks,
              reply, signal, outcome, atStart, afterCheck, invoked, agentReturned,
              served, dbSession, cancelled>>

vars == <<actVars, chatVars, restVars, sideVars>>

\* ------------------------------------------------- activity log (crud)

\* the rows of one (user, question) pair, as indices into the table
PairRows(rows, u, q) ==
    {i \in 1..Len(rows) : rows[i].user_id = u /\ rows[i].question_id = q}

\* db.query(UserActivity).filter(user, question).first(): is there a row
ExistingActivity(rows, u, q) == PairRows(rows, u, q) # {}

SetMax(S) == CHOOSE m \in S : \A x \in S : x <= m

\* a slip in the filter: the maximum over all of the user's rows
MaxAttemptAnyQuestion(rows, u, q) ==
    LET S == {i \in 1..Len(rows) : rows[i].user_id = u}
    IN IF S = {} THEN 0 ELSE SetMax({rows[i].attempt_number : i \in S})

\* db.query(func.max(UserActivity.attempt_number)).filter(...).scalar() or 0
MaxAttempt(rows, u, q) ==
    IF PairRows(rows, u, q) = {} THEN 0
    ELSE SetMax({rows[i].attempt_number : i \in PairRows(rows, u, q)})

\* the attempt number given what first() returned and what max() returned
AttemptNumber(existing, maxAttempt) ==
    IF existing THEN maxAttempt + 1 ELSE 1

\* time_spent is None
NoTime == 0

\* an AnswerSubmission
Submission(q, answer, t) ==
    [question_id |-> q, user_answer |-> answer, time_spent |-> t]

\* the submission the attempt-numbering runs use for question q
PlainSubmission(q) == Submission(q, "a", NoTime)

\* UserActivity(...): completed_at is the day of datetime.utcnow(); within a
\* day the rows are in the order of their insertion
NewActivity(u, sub, c, n, now) ==
    [user_id |-> u, question_id |-> sub.question_id,
     user_answer |-> sub.user_answer, is_correct |-> c,
     time_spent |-> sub.time_spent, attempt_number |-> n, completed_at |-> now]

\* a slip: the pair's latest row is overwritten when there is one
AddOrReplaceActivity(rows, row) ==
    LET S == PairRows(rows, row.user_id, row.question_id)
    IN IF S = {} THEN Append(rows, row)
       ELSE [rows EXCEPT ![SetMax(S)] = row]

\* db.add(activity); db.commit(): one more row, the others as they were
AddActivity(rows, row) == Append(rows, row)

IdleWorker == [pc |-> "idle", user_id |-> 0, question_id |-> 0,
               is_correct |-> FALSE, existing |-> FALSE, attempt_number |-> 0]

\* record_user_activity run without interruption (one request at a time)
RecordUserActivity(u, q, c) ==
    /\ Len(activities) < MaxRows
    /\ \A w \in Workers : worker[w].pc = "idle"
    /\ activities' = AddActivity(activities,
           NewActivity(u, PlainSubmission(q), c,
               AttemptNumber(ExistingActivity(activities, u, q),
                             MaxAttempt(activities, u, q)), today))
    /\ UNCHANGED <<worker, chatVars, restVars, sideVars>>

\* record_user_activity, statement by statement, in a worker with its own
\* database session: called, first(), max(), add + commit
CallRecord(w, u, q, c) ==
    /\ worker[w].pc = "idle"
    /\ Len(activities) + Cardinality({x \in Workers : worker[x].pc # "idle"}) < MaxRows
    /\ worker' = [worker EXCEPT ![w] =
           [IdleWorker EXCEPT !.pc = "first", !.user_id = u,
                              !.question_id = q, !.is_correct = c]]
    /\ UNCHANGED <<activities, chatVars, restVars, sideVars>>

QueryFirst(w) ==
    /\ worker[w].pc = "first"
    /\ LET e == ExistingActivity(activities, worker[w].user_id, worker[w].question_id)
       IN worker' = [worker EXCEPT ![w].existing = e,
                                   ![w].attempt_number = AttemptNumber(FALSE, 0),
                                   ![w].pc = IF e THEN "max" ELSE "insert"]
    /\ UNCHANGED <<activities, chatVars, restVars, sideVars>>

QueryMax(w) ==
    /\ worker[w].pc = "max"
    /\ worker' = [worker EXCEPT
           ![w].attempt_number =
               AttemptNumber(TRUE, MaxAttempt(activities, worker[w].user_id,
                                              worker[w].question_id)),
           ![w].pc = "insert"]
    /\ UNCHANGED <<activities, chatVars, restVars, sideVars>>

InsertCommit(w) ==
    /\ worker[w].pc = "insert"
    /\ activities' = AddActivity(activities,
           NewActivity(worker[w].user_id, PlainSubmission(worker[w].question_id),
                       worker[w].is_correct, worker[w].attempt_number, today))
    /\ worker' = [worker EXCEPT ![w] = IdleWorker]
    /\ UNCHANGED <<chatVars, restVars, sideVars>>

\* ------------------------------------------------ AI chat (ai/service)

DailyLimit == 50
\* a slip: one iteration too many
MaxIterationsPlusOne == 3 + 1

MaxIterations == 3
NoDate == 0
RateLimited == 429

MaxDay == 2
MaxRequests == 2
MaxLen == 2

Tiers == {"base", "pro"}
Modes == {"atomic", "stream"}

\* a string is a sequence of characters; the agent's answers range over Answers
Chars == {"a", "."}
Answers == UNION {[1..n -> Chars] : n \in 0..MaxLen}

UnavailableMsg == <<"N", "A">>
ErrorMsg == <<"E", "R">>
DefaultOutput == <<"?">>
StoppedOutput == <<"S", "T">>

\* a message is a sequence of words
QuestionIds == {"PHY09-CH01-MCQ0001"}
AnalyticsWords == {"progress"}
Messages == {<<"hi">>, <<"my", "progress">>, <<"explain", "PHY09-CH01-MCQ0001">>}

ToolNames == {"GetQuestionDetails", "GetUserAnalytics", "GeneralConversation"}
\* what one planning step of the agent may come to: one of the tools, or
\* an unparsable / unknown action (handle_parsing_errors)
ToolChoices == ToolNames \cup {"_Exception"}

NoResponse == [has_output |-> FALSE, output |-> <<>>]
Responses == {[has_output |-> TRUE, output |-> a] : a \in Answers} \cup {NoResponse}

NewUser == [subscription_tier |-> "base", ai_queries_today |-> 0,
            last_ai_query_date |-> NoDate]

\* a slip: the date is moved without resetting the counter
RolloverKeepCount(u, d) ==
    IF u.last_ai_query_date # d THEN [u EXCEPT !.last_ai_query_date = d] ELSE u

\* _verify_query_limit, first half: the user object after the new-day test
Rollover(u, d) ==
    IF u.last_ai_query_date # d
    THEN [u EXCEPT !.last_ai_query_date = d, !.ai_queries_today = 0]
    ELSE u

\* a slip: > for >=
LimitReachedStrict(u) ==
    u.subscription_tier = "base" /\ u.ai_queries_today > DailyLimit

\* _verify_query_limit, second half: the test that raises HTTPException(429)
LimitReached(u) ==
    u.subscription_tier = "base" /\ u.ai_queries_today >= DailyLimit

\* a slip: the counter is not moved on success
IncrementNothing(u) == u

\* self.user.ai_queries_today += 1
IncrementQueries(u) == [u EXCEPT !.ai_queries_today = @ + 1]

\* a slip: an executor is built although there is no llm
CreateAgentAlways(key) == TRUE

\* AIAgentFactory.create_agent: None when _create_llm found no API key
CreateAgent(key) == key

\* response.get("output", "I'm not sure how to respond to that.")
Output(r) == IF r.has_output THEN r.output ELSE DefaultOutput

\* db.commit(): the attributes changed on the session's object are written
\* to the row
Flush(row, old, new) ==
    [f \in DOMAIN row |-> IF new[f] # old[f] THEN new[f] ELSE row[f]]

\* a slip: the loop skips every other character
NextPosSkip(i) == i + 2

\* for i, char in enumerate(output_text): the next index
NextPos(i) == i + 1

\* the tool the prompt's "Tool Selection Logic" names for a message
ContainsQuestionId(m) == \E i \in 1..Len(m) : m[i] \in QuestionIds
AsksAnalytics(m) == \E i \in 1..Len(m) : m[i] \in AnalyticsWords
Route(m) ==
    IF ContainsQuestionId(m) THEN "GetQuestionDetails"
    ELSE IF AsksAnalytics(m) THEN "GetUserAnalytics"
    ELSE "GeneralConversation"

RECURSIVE Concat(_)
Concat(cs) == IF cs = <<>> THEN <<>> ELSE Head(cs) \o Concat(Tail(cs))

\* the per-message variables before any message is handled
NoRequest ==
    /\ mode = "atomic"
    /\ pc = "idle"
    /\ message = <<>>
    /\ reqToday = NoDate
    /\ iterations = 0
    /\ lastTool = "none"
    /\ response = NoResponse
    /\ outputText = <<>>
    /\ pos = 0
    /\ chunks = <<>>
    /\ reply = <<>>
    /\ signal = 0
    /\ outcome = "none"
    /\ invoked = FALSE
    /\ agentReturned = FALSE
    /\ cancelled = FALSE

\* the same values, as the assignment a new or a dropped connection makes
ClearRequest ==
    /\ mode' = "atomic"
    /\ pc' = "idle"
    /\ message' = <<>>
    /\ reqToday' = NoDate
    /\ iterations' = 0
    /\ lastTool' = "none"
    /\ response' = NoResponse
    /\ outputText' = <<>>
    /\ pos' = 0
    /\ chunks' = <<>>
    /\ reply' = <<>>
    /\ signal' = 0
    /\ outcome' = "none"
    /\ invoked' = FALSE
    /\ agentReturned' = FALSE
    /\ cancelled' = FALSE

reqVars == <<mode, pc, message, reqToday, iterations, lastTool, response,
             outputText, pos, chunks, reply, signal, outcome, invoked,
             agentReturned, cancelled>>

\* a slip: the session is not closed when the endpoint ends
LeaveSessionOpen == "open"

\* finally: db.close()
ReleaseSession == "closed"

\* websocket accept + AIChatService.__init__: the user is loaded, the agent
\* is built
Connect ==
    /\ conn = "closed"
    /\ pc = "idle"
    /\ conn' = "open"
    /\ dbSession' = "open"
    /\ user' = dbUser
    /\ agentExecutor' = CreateAgent(apiKey)
    /\ ClearRequest
    /\ atStart' = dbUser
    /\ afterCheck' = dbUser
    /\ UNCHANGED <<today, dbUser, apiKey, served, actVars, restVars, sideVars>>

\* the client goes away while the endpoint waits in receive_text
Disconnect ==
    /\ conn = "open"
    /\ pc = "idle"
    /\ conn' = "closed"
    /\ dbSession' = ReleaseSession
    /\ ClearRequest
    /\ UNCHANGED <<today, dbUser, user, apiKey, agentExecutor, atStart,
                   afterCheck, served, actVars, restVars, sideVars>>

\* midnight
DayPasses ==
    /\ today < MaxDay
    /\ today' = today + 1
    /\ UNCHANGED <<dbUser, user, apiKey, agentExecutor, conn, reqVars, atStart,
                   afterCheck, served, dbSession, actVars, restVars, sideVars>>

\* a message arrives: websocket.receive_text (stream) or a call of
\* get_ai_response (atomic)
Receive(m, md, cap) ==
    /\ conn = "open"
    /\ pc = "idle"
    /\ served < cap
    /\ served' = served + 1
    /\ message' = m
    /\ mode' = md
    /\ pc' = "verify"
    /\ reqToday' = NoDate
    /\ iterations' = 0
    /\ lastTool' = "none"
    /\ response' = NoResponse
    /\ outputText' = <<>>
    /\ pos' = 0
    /\ chunks' = <<>>
    /\ reply' = <<>>
    /\ signal' = 0
    /\ outcome' = "pending"
    /\ invoked' = FALSE
    /\ agentReturned' = FALSE
    /\ cancelled' = FALSE
    /\ atStart' = dbUser
    /\ afterCheck' = dbUser
    /\ UNCHANGED <<today, dbUser, user, apiKey, agentExecutor, conn, dbSession,
                   actVars, restVars, sideVars>>

\* _verify_query_limit, lines 188-194: the lazy daily rollover and its commit
VerifyRollover ==
    /\ pc = "verify"
    /\ reqToday' = today
    /\ IF user.last_ai_query_date # today
       THEN /\ dbUser' = Flush(dbUser, user, Rollover(user, today))
            /\ user' = dbUser'
       ELSE UNCHANGED <<dbUser, user>>
    /\ afterCheck' = dbUser'
    /\ pc' = "limit"
    /\ UNCHANGED <<today, apiKey, agentExecutor, conn, mode, message, iterations,
                   lastTool, response, outputText, pos, chunks, reply, signal,
                   outcome, atStart, invoked, agentReturned, served, dbSession, cancelled,
                   actVars, restVars, sideVars>>

\* _verify_query_limit, lines 196-201: HTTPException(429); the websocket
\* endpoint answers it with an error frame and closes the connection
RejectQuery ==
    /\ pc = "limit"
    /\ LimitReached(user)
    /\ signal' = RateLimited
    /\ outcome' = "rejected"
    /\ pc' = "idle"
    /\ conn' = IF mode = "stream" THEN "closed" ELSE conn
    /\ dbSession' = IF mode = "stream" THEN ReleaseSession ELSE dbSession
    /\ UNCHANGED cancelled
    /\ UNCHANGED <<today, dbUser, user, apiKey, agentExecutor, mode, message,
                   reqToday, iterations, lastTool, response, outputText, pos,
                   chunks, reply, atStart, afterCheck, invoked, agentReturned,
                   served, actVars, restVars, sideVars>>

PassLimit ==
    /\ pc = "limit"
    /\ ~LimitReached(user)
    /\ pc' = "agent"
    /\ UNCHANGED <<today, dbUser, user, apiKey, agentExecutor, conn, mode, message,
                   reqToday, iterations, lastTool, response, outputText, pos,
                   chunks, reply, signal, outcome, atStart, afterCheck, invoked,
                   agentReturned, served, dbSession, cancelled,
                   actVars, restVars, sideVars>>

\* a fixed message handed back: returned (atomic) or yielded as one chunk
Deliver(text, how) ==
    /\ IF mode = "stream"
       THEN chunks' = <<text>> /\ UNCHANGED reply
       ELSE reply' = text /\ UNCHANGED chunks
    /\ outcome' = how
    /\ pc' = "idle"

\* if not self.agent_executor: the fixed "not available" message
NoAgent ==
    /\ pc = "agent"
    /\ ~agentExecutor
    /\ Deliver(UnavailableMsg, "unavailable")
    /\ UNCHANGED <<today, dbUser, user, apiKey, agentExecutor, conn, mode, message,
                   reqToday, iterations, lastTool, response, outputText, pos,
                   signal, atStart, afterCheck, invoked, agentReturned, served,
                   dbSession, cancelled,
                   actVars, restVars, sideVars>>

\* agent_executor.invoke, one iteration of the executor's loop: the model
\* names an action, the tool (or the parsing-error handler) runs
AgentPlanTool(t) ==
    /\ pc = "agent"
    /\ agentExecutor
    /\ iterations < MaxIterations
    /\ invoked' = TRUE
    /\ iterations' = iterations + 1
    /\ lastTool' = t
    /\ UNCHANGED <<today, dbUser, user, apiKey, agentExecutor, conn, mode, message,
                   reqToday, response, outputText, pos, chunks, reply, signal,
                   outcome, atStart, afterCheck, agentReturned, served, pc,
                   dbSession, cancelled,
                   actVars, restVars, sideVars>>

\* agent_executor.invoke returns: the model gave a final answer
AgentFinish(r) ==
    /\ pc = "agent"
    /\ agentExecutor
    /\ iterations < MaxIterations
    /\ invoked' = TRUE
    /\ agentReturned' = TRUE
    /\ response' = r
    /\ iterations' = 0
    /\ lastTool' = "none"
    /\ pc' = "commit"
    /\ UNCHANGED <<today, dbUser, user, apiKey, agentExecutor, conn, mode, message,
                   reqToday, outputText, pos, chunks, reply, signal, outcome,
                   atStart, afterCheck, served, dbSession, cancelled,
                   actVars, restVars, sideVars>>

\* agent_executor.invoke returns: max_iterations reached, the executor's
\* forced stop response
AgentStopped ==
    /\ pc = "agent"
    /\ agentExecutor
    /\ iterations = MaxIterations
    /\ agentReturned' = TRUE
    /\ response' = [has_output |-> TRUE, output |-> StoppedOutput]
    /\ iterations' = 0
    /\ lastTool' = "none"
    /\ pc' = "commit"
    /\ UNCHANGED <<today, dbUser, user, apiKey, agentExecutor, conn, mode, message,
                   reqToday, outputText, pos, chunks, reply, signal, outcome,
                   atStart, afterCheck, invoked, served, dbSession, cancelled,
                   actVars, restVars, sideVars>>

\* agent_executor.invoke raises (the model call or a tool fails): the
\* except branch answers with the generic error string
AgentRaise ==
    /\ pc = "agent"
    /\ agentExecutor
    /\ iterations < MaxIterations
    /\ invoked' = TRUE
    /\ iterations' = 0
    /\ lastTool' = "none"
    /\ Deliver(ErrorMsg, "error")
    /\ UNCHANGED <<today, dbUser, user, apiKey, agentExecutor, conn, mode, message,
                   reqToday, response, outputText, pos, signal, atStart,
                   afterCheck, agentReturned, served, dbSession, cancelled,
                   actVars, restVars, sideVars>>

\* after invoke: output_text, ai_queries_today += 1, db.commit(); the atomic
\* mode returns the text, the streamed mode starts to yield it
CommitQuery ==
    /\ pc = "commit"
    /\ outputText' = Output(response)
    /\ dbUser' = Flush(dbUser, user, IncrementQueries(user))
    /\ user' = dbUser'
    /\ outcome' = "success"
    /\ IF mode = "stream"
       THEN pc' = "emit" /\ pos' = 1 /\ UNCHANGED reply
       ELSE pc' = "idle" /\ reply' = outputText' /\ UNCHANGED pos
    /\ UNCHANGED <<today, apiKey, agentExecutor, conn, mode, message, reqToday,
                   iterations, lastTool, response, chunks, signal, atStart,
                   afterCheck, invoked, agentReturned, served, dbSession, cancelled,
                   actVars, restVars, sideVars>>

\* yield char (and the pacing sleep after it)
EmitChar ==
    /\ pc = "emit"
    /\ pos <= Len(outputText)
    /\ chunks' = Append(chunks, <<outputText[pos]>>)
    /\ pos' = NextPos(pos)
    /\ UNCHANGED <<today, dbUser, user, apiKey, agentExecutor, conn, mode, message,
                   reqToday, iterations, lastTool, response, outputText, reply,
                   signal, outcome, atStart, afterCheck, invoked, agentReturned,
                   served, pc, dbSession, cancelled,
                   actVars, restVars, sideVars>>

\* the for loop is exhausted: the generator ends
EndStream ==
    /\ pc = "emit"
    /\ pos > Len(outputText)
    /\ pc' = "idle"
    /\ UNCHANGED <<today, dbUser, user, apiKey, agentExecutor, conn, mode, message,
                   reqToday, iterations, lastTool, response, outputText, pos,
                   chunks, reply, signal, outcome, atStart, afterCheck, invoked,
                   agentReturned, served, dbSession, cancelled,
                   actVars, restVars, sideVars>>

\* websocket.send_text(chunk) raises: the client is gone. The generator is
\* not resumed; the inner except branch logs and tries to send an error
\* frame
CancelStream ==
    /\ pc = "emit"
    /\ mode = "stream"
    /\ conn = "open"
    /\ Len(chunks) >= 1
    /\ cancelled' = TRUE
    /\ pc' = "cancel"
    /\ UNCHANGED <<today, dbUser, user, apiKey, agentExecutor, conn, mode, message,
                   reqToday, iterations, lastTool, response, outputText, pos,
                   chunks, reply, signal, outcome, atStart, afterCheck, invoked,
                   agentReturned, served, dbSession, actVars, restVars, sideVars>>

\* the error frame cannot be sent either (or the next receive_text raises):
\* the endpoint leaves its loop through the outer except and finally
EndpointAbort ==
    /\ pc = "cancel"
    /\ conn' = "closed"
    /\ dbSession' = ReleaseSession
    /\ pc' = "idle"
    /\ UNCHANGED <<today, dbUser, user, apiKey, agentExecutor, mode, message,
                   reqToday, iterations, lastTool, response, outputText, pos,
                   chunks, reply, signal, outcome, atStart, afterCheck, invoked,
                   agentReturned, served, cancelled, actVars, restVars, sideVars>>

\* ------------------------------------- a second chat session (api/ai)

PeerAtRest ==
    [conn |-> "closed", user |-> NewUser, pc |-> "idle", received |-> 0,
     answered |-> 0]

\* websocket_chat_endpoint for another connection of the same user:
\* AIChatService.__init__ loads the user into this session
PeerConnect ==
    /\ peer.conn = "closed"
    /\ peer' = [peer EXCEPT !.conn = "open", !.user = dbUser]
    /\ UNCHANGED <<today, dbUser, user, apiKey, agentExecutor, conn, reqVars, atStart,
                   afterCheck, served, dbSession, marks, marker, importVars,
                   analytics, actVars, restVars>>

\* a message arrives there: _verify_query_limit on the session's copy; a
\* rejection closes the connection, a missing agent is answered at once
PeerReceive(cap) ==
    /\ peer.conn = "open"
    /\ peer.pc = "idle"
    /\ peer.received < cap
    /\ LET u == Rollover(peer.user, today)
           row == Flush(dbUser, peer.user, u)
           seen == IF peer.user.last_ai_query_date # today THEN row ELSE peer.user
       IN /\ dbUser' = IF peer.user.last_ai_query_date # today THEN row ELSE dbUser
          /\ peer' = [peer EXCEPT
                 !.user = seen,
                 !.received = @ + 1,
                 !.conn = IF LimitReached(seen) THEN "closed" ELSE @,
                 !.pc = IF LimitReached(seen) \/ ~CreateAgent(apiKey)
                        THEN "idle" ELSE "invoke"]
    /\ UNCHANGED <<today, user, apiKey, agentExecutor, conn, reqVars, atStart,
                   afterCheck, served, dbSession, marks, marker, importVars,
                   analytics, actVars, restVars>>

\* the agent answered: ai_queries_today += 1 on the session's copy, commit
PeerCommit ==
    /\ peer.pc = "invoke"
    /\ dbUser' = Flush(dbUser, peer.user, IncrementQueries(peer.user))
    /\ peer' = [peer EXCEPT !.user = dbUser', !.pc = "idle", !.answered = @ + 1]
    /\ UNCHANGED <<today, user, apiKey, agentExecutor, conn, reqVars, atStart,
                   afterCheck, served, dbSession, marks, marker, importVars,
                   analytics, actVars, restVars>>

\* the agent raised: the generic apology, no increment
PeerRaise ==
    /\ peer.pc = "invoke"
    /\ peer' = [peer EXCEPT !.pc = "idle"]
    /\ UNCHANGED <<today, dbUser, user, apiKey, agentExecutor, conn, reqVars, atStart,
                   afterCheck, served, dbSession, marks, marker, importVars,
                   analytics, actVars, restVars>>

\* ------------------------------------------ question catalog (models)

NumChapters == 2
Chapters == 1..NumChapters
ChapterName(n) == <<"Ch", n>>
Tags == {"t1", "t2"}
AnswerKeys == {"a", "A", "b", "B"}

\* a questions row with the columns the operations below read
BaseQuestion ==
    [chapter_number |-> 1, chapter_name |-> ChapterName(1),
     difficulty_level |-> "Easy", question_type |-> "multiple_choice",
     tags |-> {}, is_active |-> TRUE, correct_answer |-> "a",
     explanations |-> {}]

BaseCatalog == [q \in Questions |-> BaseQuestion]

\* ------------------------------------------- statistics (crud/analytics)

\* ZeroDivisionError
DivisionError == -1

\* round(), to the nearest integer, ties to the even one
RoundHalfEven(n, d) ==
    LET q == n \div d
        r == n % d
    IN IF 2 * r < d THEN q
       ELSE IF 2 * r > d THEN q + 1
       ELSE IF q % 2 = 0 THEN q ELSE q + 1

\* round(n / d, k) in units of 1/scale, scale = 10^k; n / 0 raises
Ratio(n, d, scale) ==
    IF d = 0 THEN DivisionError ELSE RoundHalfEven(n * scale, d)

\* a slip: the division without its guard
AccuracyUnguarded(correct, total) == Ratio(correct * 100, total, 100)

\* round((correct / total * 100) if total > 0 else 0, 2), in hundredths
Accuracy(correct, total) ==
    IF total > 0 THEN Ratio(correct * 100, total, 100) ELSE 0

\* round((total_time / total) if total > 0 else 0, 2), in hundredths
AverageTime(time, total) ==
    IF total > 0 THEN Ratio(time, total, 100) ELSE 0

\* round((correct / total * 100) if total > 0 else 0, 1), in tenths
Accuracy1(correct, total) ==
    IF total > 0 THEN Ratio(correct * 100, total, 10) ELSE 0

UserRowIds(rows, u) == {i \in 1..Len(rows) : rows[i].user_id = u}

CorrectIds(rows, ids) == {i \in ids : rows[i].is_correct}

RECURSIVE SumTime(_, _)
SumTime(rows, ids) ==
    IF ids = {} THEN 0
    ELSE LET i == CHOOSE x \in ids : TRUE
         IN rows[i].time_spent + SumTime(rows, ids \ {i})

\* get_user_stats, without the per-difficulty and per-chapter counts
GetUserStats(rows, u) ==
    LET ids == UserRowIds(rows, u)
        total == Cardinality(ids)
        correct == Cardinality(CorrectIds(rows, ids))
        time == SumTime(rows, ids)
    IN [total_questions_attempted |-> total,
        correct_answers |-> correct,
        accuracy_percentage |-> Accuracy(correct, total),
        total_time_spent |-> time,
        average_time_per_question |-> AverageTime(time, total)]

\* a slip: the chapters of all questions, inactive ones included
ChapterTotalsAll(cat) ==
    {<<cat[q].chapter_number, cat[q].chapter_name>> : q \in DOMAIN cat}

\* chapter_totals: active questions grouped by (chapter_number, chapter_name)
ChapterTotals(cat) ==
    {<<cat[q].chapter_number, cat[q].chapter_name>> :
        q \in {x \in DOMAIN cat : cat[x].is_active}}

\* the user's rows joined with their question, of one chapter number
ChapterRowIds(rows, cat, u, n) ==
    {i \in UserRowIds(rows, u) :
        /\ rows[i].question_id \in DOMAIN cat
        /\ cat[rows[i].question_id].chapter_number = n}

\* get_chapter_progress: the entries of the returned list
GetChapterProgress(rows, cat, u) ==
    {LET ids == ChapterRowIds(rows, cat, u, ch[1])
         attempted == Cardinality(ids)
         correct == Cardinality(CorrectIds(rows, ids))
     IN [chapter_number |-> ch[1],
         chapter_name |-> ch[2],
         total_questions |->
             Cardinality({q \in DOMAIN cat :
                 /\ cat[q].is_active
                 /\ <<cat[q].chapter_number, cat[q].chapter_name>> = ch}),
         attempted_questions |-> attempted,
         correct_answers |-> correct,
         accuracy_percentage |-> Accuracy(correct, attempted)]
     : ch \in ChapterTotals(cat)}

\* .limit(10) of the recent-streak query
StreakWindow == 10

\* order_by(desc(completed_at)).limit(10): the user's most recent rows
RecentActivities(rows, u) ==
    LET ids == UserRowIds(rows, u)
    IN {i \in ids : Cardinality({j \in ids : j > i}) < StreakWindow}

\* the streak loop over the rows ids, most recent first, n counted so far
RECURSIVE CountStreak(_, _, _)
CountStreak(rows, ids, n) ==
    IF ids = {} THEN n
    ELSE LET i == SetMax(ids)
         IN IF rows[i].is_correct THEN CountStreak(rows, ids \ {i}, n + 1)
            ELSE n

CurrentStreak(rows, u) == CountStreak(rows, RecentActivities(rows, u), 0)

\* get_real_time_stats, without last_updated
GetRealTimeStats(rows, cat, u, now) ==
    LET ids == {i \in UserRowIds(rows, u) : rows[i].completed_at >= now}
        today_total == Cardinality(ids)
        today_correct == Cardinality(CorrectIds(rows, ids))
    IN [today |-> [questions_attempted |-> today_total,
                   correct_answers |-> today_correct,
                   accuracy |-> Accuracy1(today_correct, today_total),
                   time_spent |-> SumTime(rows, ids),
                   current_streak |-> CurrentStreak(rows, u)],
        overall |-> GetUserStats(rows, u),
        chapter_progress |-> GetChapterProgress(rows, cat, u)]

\* the user's rows of the last `days` days; of the day now - days only the
\* later part lies in the window, the model counts that day in
WindowIds(rows, u, days, now) ==
    {i \in UserRowIds(rows, u) : rows[i].completed_at >= now - days}

\* get_performance_trends: one entry per day that has rows in the window
GetPerformanceTrends(rows, u, days, now) ==
    LET ids == {i \in WindowIds(rows, u, days, now) : rows[i].completed_at <= now}
    IN {LET day == {i \in ids : rows[i].completed_at = d}
            total == Cardinality(day)
            correct == Cardinality(CorrectIds(rows, day))
        IN [date |-> d,
            questions_attempted |-> total,
            correct_answers |-> correct,
            accuracy |-> Accuracy1(correct, total),
            time_spent |-> SumTime(rows, day),
            avg_time_per_question |->
                IF total > 0 THEN Ratio(SumTime(rows, day), total, 10) ELSE 0]
        : d \in {rows[i].completed_at : i \in ids}}

\* len(unique_dates) / days * 100 if days > 0 else 0, rounded to tenths
ConsistencyScore(dates, days) ==
    IF days > 0 THEN Ratio(Cardinality(dates) * 100, days, 10) ELSE 0

\* total_time / len(unique_dates) if unique_dates else 0, rounded to tenths
AverageSessionLength(time, dates) ==
    IF dates # {} THEN Ratio(time, Cardinality(dates), 10) ELSE 0

MinAttempts == 5
ImprovementBelow == 70
StrengthFrom == 85
TopAreas == 3

\* chapter_performance as a list: one entry per chapter name met in the
\* rows, with its totals and the row it was first met at
ChapterPerformance(rows, cat, ids) ==
    {LET mine == {i \in ids : cat[rows[i].question_id].chapter_name = name}
     IN [chapter |-> name, total |-> Cardinality(mine),
         correct |-> Cardinality(CorrectIds(rows, mine)),
         first |-> CHOOSE i \in mine : \A j \in mine : i <= j] :
        name \in {cat[rows[i].question_id].chapter_name : i \in ids}}

\* chapter_accuracy.sort(key=accuracy): a stable sort of the list, which is
\* in the order the chapters were first met
SortsBefore(a, b) ==
    \/ a.correct * b.total < b.correct * a.total
    \/ a.correct * b.total = b.correct * a.total /\ a.first < b.first

ChapterAccuracySorted(perf) ==
    [k \in 1..Cardinality(perf) |->
        CHOOSE a \in perf : Cardinality({b \in perf : SortsBefore(b, a)}) = k - 1]

Reversed(seq) == [i \in 1..Len(seq) |-> seq[Len(seq) + 1 - i]]

FirstN(seq, n) == SubSeq(seq, 1, IF Len(seq) < n THEN Len(seq) ELSE n)

\* {"name": chapter, "accuracy": round(accuracy)}
AreaEntry(item) ==
    [name |-> item.chapter, accuracy |-> RoundHalfEven(item.correct * 100, item.total)]

AreaEntries(seq) == [i \in 1..Len(seq) |-> AreaEntry(seq[i])]

IsImprovementArea(item) ==
    item.total >= MinAttempts /\ item.correct * 100 < ImprovementBelow * item.total

IsStrength(item) ==
    item.total >= MinAttempts /\ item.correct * 100 >= StrengthFrom * item.total

\* improvement_areas[:3]
ImprovementAreas(sorted) ==
    FirstN(AreaEntries(SelectSeq(sorted, IsImprovementArea)), TopAreas)

\* a slip: the strengths are read off the list without reversing it
StrengthsUnreversed(sorted) ==
    FirstN(AreaEntries(SelectSeq(sorted, IsStrength)), TopAreas)

\* strengths[:3]
Strengths(sorted) ==
    FirstN(AreaEntries(SelectSeq(Reversed(sorted), IsStrength)), TopAreas)

\* get_detailed_analytics: practice time, session length, improvement areas,
\* strengths, consistency and trends (the per-hour, per-weekday and
\* per-difficulty insights are left out)
GetDetailedAnalytics(rows, cat, u, days, now) ==
    LET ids == {i \in WindowIds(rows, u, days, now) :
                    rows[i].question_id \in DOMAIN cat}
        dates == {rows[i].completed_at : i \in ids}
        time == SumTime(rows, ids)
        sorted == ChapterAccuracySorted(ChapterPerformance(rows, cat, ids))
    IN IF ids = {}
       THEN [total_practice_time |-> 0, average_session_length |-> 0,
             improvement_areas |-> <<>>, strengths |-> <<>>,
             consistency_score |-> 0, trends |-> {}]
       ELSE [total_practice_time |-> time,
             average_session_length |-> AverageSessionLength(time, dates),
             improvement_areas |-> ImprovementAreas(sorted),
             strengths |-> Strengths(sorted),
             consistency_score |-> ConsistencyScore(dates, days),
             trends |-> GetPerformanceTrends(rows, u, days, now)]

NoAnalytics == [user_id |-> 0, days |-> 0]

\* GET /detailed: the analytics of the caller over the last days days
DetailedAnalytics(u, days) ==
    /\ analytics' = [user_id |-> u, days |-> days,
                     result |-> GetDetailedAnalytics(activities, catalog, u, days, today)]
    /\ UNCHANGED <<marks, marker, importVars, peer, actVars, chatVars, restVars>>

\* ------------------------------------------- broadcast hub (ws_manager)

NoMessage == [type |-> "none"]

NoBroadcast ==
    [phase |-> "idle", message |-> NoMessage, targets |-> {}, todo |-> {},
     failed |-> {}, raised |-> FALSE]

\* manager.connect: the handle joins the set
HubConnect(reg, s) == reg \cup {s}

\* manager.disconnect: the handle leaves the set; no-op when absent
HubDisconnect(reg, s) == reg \ {s}

\* manager.broadcast begins: every registered handle is to be sent to
StartBroadcast(reg, m) ==
    [phase |-> "sending", message |-> m, targets |-> reg, todo |-> reg,
     failed |-> {}, raised |-> FALSE]

\* a broadcast that gives up at the first failed send and raises
SendFailedRaise(b, s) ==
    [b EXCEPT !.todo = {}, !.failed = @ \cup {s}, !.raised = TRUE]

\* a send failed: the broadcast notes the handle and goes on to the others
SendFailed(b, s) ==
    [b EXCEPT !.todo = @ \ {s}, !.failed = @ \cup {s}]

SendDone(b, s) == [b EXCEPT !.todo = @ \ {s}]

\* ------------------------------------- analytics websocket (api/analytics)

\* websocket_endpoint: await manager.connect(websocket)
WsConnect(s) ==
    /\ sock[s] = "none"
    /\ sock' = [sock EXCEPT ![s] = "open"]
    /\ registry' = HubConnect(registry, s)
    /\ UNCHANGED <<selection, sideVars, catalog, req, answerResponse, inbox, bcast, actVars, chatVars>>

\* the client goes away; its handler has not noticed yet
ClientDrops(s) ==
    /\ sock[s] = "open"
    /\ sock' = [sock EXCEPT ![s] = "broken"]
    /\ UNCHANGED <<selection, sideVars, catalog, req, answerResponse, registry, inbox, bcast, actVars,
                   chatVars>>

\* receive_text raises WebSocketDisconnect: manager.disconnect(websocket)
HandlerDisconnect(s) ==
    /\ sock[s] = "broken"
    /\ sock' = [sock EXCEPT ![s] = "ended"]
    /\ registry' = HubDisconnect(registry, s)
    /\ UNCHANGED <<selection, sideVars, catalog, req, answerResponse, inbox, bcast, actVars, chatVars>>

\* the keepalive send_text (or receive_text) raises another exception: the
\* handler ends without passing through its except branch
HandlerError(s) ==
    /\ sock[s] = "broken"
    /\ sock' = [sock EXCEPT ![s] = "ended"]
    /\ UNCHANGED <<selection, sideVars, catalog, req, answerResponse, registry, inbox, bcast, actVars,
                   chatVars>>

\* ------------------------------------------- question queries (crud/question)

\* QuestionFilter defaults
DefaultLimit == 10
DefaultOffset == 0

\* a QuestionFilter; a dimension that is None or [] is the empty set
QuestionFilter(chapters, difficulties, tags, types) ==
    [chapter_numbers |-> chapters, difficulty_levels |-> difficulties,
     tags |-> tags, question_types |-> types,
     limit |-> DefaultLimit, offset |-> DefaultOffset]

\* no question: None, or an id no row has
NoQuestion == 0

NoSelection == [kind |-> "none"]

\* for tag in filters.tags: query.filter(tags.contains('"tag"')), one
\* filter after the other
TagsMatch(qtags, ftags) == \A t \in ftags : t \in qtags

\* the filters of both queries on one questions row
MatchesFilters(row, f) ==
    /\ row.is_active
    /\ f.chapter_numbers # {} => row.chapter_number \in f.chapter_numbers
    /\ f.difficulty_levels # {} => row.difficulty_level \in f.difficulty_levels
    /\ f.question_types # {} => row.question_type \in f.question_types
    /\ f.tags # {} => TagsMatch(row.tags, f.tags)

Matching(cat, f) == {q \in DOMAIN cat : MatchesFilters(cat[q], f)}

\* the ids of a set in ascending order
RECURSIVE SortedIds(_)
SortedIds(S) ==
    IF S = {} THEN <<>>
    ELSE LET m == SetMax(S) IN Append(SortedIds(S \ {m}), m)

\* a slip: the row at the offset is left out
PageAfterOffset(ids, o, l) ==
    LET all == SortedIds(ids)
    IN SubSeq(all, o + 2, IF o + l < Len(all) THEN o + l ELSE Len(all))

\* query.offset(o).limit(l).all()
Page(ids, o, l) ==
    LET all == SortedIds(ids)
    IN SubSeq(all, o + 1, IF o + l < Len(all) THEN o + l ELSE Len(all))

\* get_questions_filtered: (questions, total_count)
GetQuestionsFiltered(cat, f) ==
    [questions |-> Page(Matching(cat, f), f.offset, f.limit),
     total_count |-> Cardinality(Matching(cat, f))]

\* the question ids the user has an activity row for
AttemptedQuestionIds(rows, u) == {rows[i].question_id : i \in UserRowIds(rows, u)}

\* get_random_question: the rows query.all() returns
RandomCandidates(cat, rows, f, u, exclude_attempted) ==
    {q \in Matching(cat, f) :
        (exclude_attempted /\ u # 0) => q \notin AttemptedQuestionIds(rows, u)}

\* POST /filter
FilterQuestions(u, f) ==
    /\ selection' =
           LET r == GetQuestionsFiltered(catalog, f)
           IN [kind |-> "filter", user_id |-> u, filters |-> f,
               questions |-> r.questions, total_count |-> r.total_count,
               has_more |-> r.total_count > f.offset + f.limit]
    /\ UNCHANGED <<catalog, req, answerResponse, registry, sock, inbox, bcast,
                   actVars, chatVars, sideVars>>

\* POST /get_question: random.choice of the candidates, 404 without one;
\* rows keeps the activity table as the query saw it
GetPracticeQuestion(u, f, exclude_attempted) ==
    /\ LET C == RandomCandidates(catalog, activities, f, u, exclude_attempted)
       IN \/ /\ C = {}
             /\ selection' = [kind |-> "random", user_id |-> u, filters |-> f,
                              exclude_attempted |-> exclude_attempted,
                              rows |-> activities,
                              status |-> 404, question |-> NoQuestion]
          \/ \E q \in C :
                selection' = [kind |-> "random", user_id |-> u, filters |-> f,
                              exclude_attempted |-> exclude_attempted,
                              rows |-> activities,
                              status |-> 200, question |-> q]
    /\ UNCHANGED <<catalog, req, answerResponse, registry, sock, inbox, bcast,
                   actVars, chatVars, sideVars>>

\* ------------------------------------------- check_answer (api/questions)

NoRequestInProgress ==
    [pc |-> "idle", user_id |-> 0, submission |-> PlainSubmission(NoQuestion),
     question |-> NoQuestion, is_correct |-> FALSE]
NoAnswer == [status |-> 0]
NotFound == [status |-> 404]
ServerError == [status |-> 500]

\* a slip: the lookup leaves the is_active test out
GetQuestionByIdAnyState(cat, id) ==
    IF id \in DOMAIN cat THEN id ELSE NoQuestion

\* get_question_by_id: the id of the active question, if there is one
GetQuestionById(cat, id) ==
    IF id \in DOMAIN cat /\ cat[id].is_active THEN id ELSE NoQuestion

\* str.lower() on an answer key
Lower(k) ==
    CASE k = "A" -> "a"
      [] k = "B" -> "b"
      [] OTHER -> k

\* a slip: the keys compared as they are
IsCorrectExact(user_answer, correct_answer) == user_answer = correct_answer

\* submission.user_answer.lower() == question.correct_answer.lower()
IsCorrect(user_answer, correct_answer) == Lower(user_answer) = Lower(correct_answer)

\* the payload of the stats_update broadcast
StatsUpdate(u, stats) == [type |-> "stats_update", user_id |-> u, data |-> stats]

\* explanation = None
NoExplanation == <<>>

\* question.explanations[k]: the text stored under key k; the column is
\* modelled by the set of its keys (None and {} are the empty set)
ExplanationText(k) == <<"explanation", k>>

\* a slip: the correct answer's explanation is looked up first
GetExplanationCorrectFirst(explanations, user_answer, correct_answer) ==
    IF correct_answer \in explanations THEN ExplanationText(correct_answer)
    ELSE IF user_answer \in explanations THEN ExplanationText(user_answer)
    ELSE NoExplanation

\* the if / elif on question.explanations
GetExplanation(explanations, user_answer, correct_answer) ==
    IF user_answer \in explanations THEN ExplanationText(user_answer)
    ELSE IF correct_answer \in explanations THEN ExplanationText(correct_answer)
    ELSE NoExplanation

\* AnswerResponse(...)
AnswerResponse(c, correct_answer, explanation, user_answer) ==
    [status |-> 200, is_correct |-> c, correct_answer |-> correct_answer,
     explanation |-> explanation, user_answer |-> user_answer]

\* check_answer up to its await: look the question up, decide, record the
\* activity, compute the stats and start the broadcast; 404 without a
\* question. A run checks at most cap answers
CheckAnswer(u, sub, cap) ==
    /\ req.pc \notin {"broadcast", "resetting"}
    /\ Len(activities) < cap
    /\ \A w \in Workers : worker[w].pc = "idle"
    /\ LET q == GetQuestionById(catalog, sub.question_id)
       IN IF q = NoQuestion
          THEN /\ answerResponse' = NotFound
               /\ req' = [NoRequestInProgress EXCEPT !.pc = "done", !.user_id = u,
                                                     !.submission = sub]
               /\ UNCHANGED <<activities, bcast>>
          ELSE LET c == IsCorrect(sub.user_answer, catalog[q].correct_answer)
                   rows == AddActivity(activities,
                               NewActivity(u, sub, c,
                                   AttemptNumber(ExistingActivity(activities, u, q),
                                                 MaxAttempt(activities, u, q)),
                                   today))
               IN /\ activities' = rows
                  /\ req' = [pc |-> "broadcast", user_id |-> u, submission |-> sub,
                             question |-> q, is_correct |-> c]
                  /\ bcast' = StartBroadcast(registry,
                                  StatsUpdate(u, GetRealTimeStats(rows, catalog, u,
                                                                  today)))
                  /\ answerResponse' = NoAnswer
    /\ UNCHANGED <<selection, sideVars, catalog, registry, sock, inbox, worker, chatVars>>

\* manager.broadcast sends to one registered handle; a failed send prunes it
BroadcastSend(s) ==
    /\ bcast.phase = "sending"
    /\ s \in bcast.todo
    /\ IF sock[s] = "open"
       THEN /\ inbox' = [inbox EXCEPT ![s] = Append(@, bcast.message)]
            /\ bcast' = SendDone(bcast, s)
            /\ UNCHANGED registry
       ELSE /\ bcast' = SendFailed(bcast, s)
            /\ registry' = HubDisconnect(registry, s)
            /\ UNCHANGED inbox
    /\ UNCHANGED <<selection, sideVars, catalog, req, answerResponse, sock, actVars, chatVars>>

\* the broadcast is over and check_answer returns; a raise in the try block
\* becomes HTTP 500
CheckAnswerReturn ==
    /\ req.pc = "broadcast"
    /\ bcast.phase = "sending"
    /\ bcast.todo = {}
    /\ bcast' = [bcast EXCEPT !.phase = "done"]
    /\ req' = [req EXCEPT !.pc = "done"]
    /\ answerResponse' =
           IF bcast.raised THEN ServerError
           ELSE AnswerResponse(req.is_correct, catalog[req.question].correct_answer,
                               GetExplanation(catalog[req.question].explanations,
                                              req.submission.user_answer,
                                              catalog[req.question].correct_answer),
                               req.submission.user_answer)
    /\ UNCHANGED <<selection, sideVars, catalog, registry, sock, inbox, actVars, chatVars>>

\* ------------------------------------- reset analytics (api/analytics)

RECURSIVE RowsNotOf(_, _)
\* the rows that do not belong to user u, in table order
RowsNotOf(rows, u) ==
    IF rows = <<>> THEN <<>>
    ELSE IF Head(rows).user_id = u THEN RowsNotOf(Tail(rows), u)
         ELSE <<Head(rows)>> \o RowsNotOf(Tail(rows), u)

\* reset_user_analytics: all activity rows of the user are purged
ResetUserAnalytics(rows, u) == RowsNotOf(rows, u)

\* json {"type": "analytics_reset", "user_id": ...}
AnalyticsReset(u) == [type |-> "analytics_reset", user_id |-> u]

\* reset_analytics up to its await: purge, then start the broadcast
ResetAnalytics(u) ==
    /\ req.pc \notin {"broadcast", "resetting"}
    /\ \A w \in Workers : worker[w].pc = "idle"
    /\ activities' = ResetUserAnalytics(activities, u)
    /\ req' = [NoRequestInProgress EXCEPT !.pc = "resetting", !.user_id = u]
    /\ bcast' = StartBroadcast(registry, AnalyticsReset(u))
    /\ answerResponse' =
           [status |-> 0,
            deleted_activities |-> Len(activities) - Len(ResetUserAnalytics(activities, u))]
    /\ UNCHANGED <<selection, sideVars, catalog, registry, sock, inbox, worker, chatVars>>

\* the broadcast is over and reset_analytics returns
ResetReturn ==
    /\ req.pc = "resetting"
    /\ bcast.phase = "sending"
    /\ bcast.todo = {}
    /\ bcast' = [bcast EXCEPT !.phase = "done"]
    /\ req' = [req EXCEPT !.pc = "done"]
    /\ answerResponse' = IF bcast.raised THEN ServerError
                         ELSE [answerResponse EXCEPT !.status = 200]
    /\ UNCHANGED <<selection, sideVars, catalog, registry, sock, inbox, actVars, chatVars>>

\* ------------------------------------------------- marks (crud/analytics)

MaxMarks == 3

MarkTypes == {"review", "important"}

\* notes = None
NoNotes == "none"

Notes == {NoNotes, "n1"}

NoMark == 0

\* the rows of one (user, question, mark_type) triple
TripleMarks(rows, u, q, t) ==
    {m \in rows : m.user_id = u /\ m.question_id = q /\ m.mark_type = t}

\* .first() on the triple's rows: the id of one of them, NoMark if none
ExistingMarks(rows, u, q, t) ==
    IF TripleMarks(rows, u, q, t) = {} THEN {NoMark}
    ELSE {m.id : m \in TripleMarks(rows, u, q, t)}

\* the integer primary key of a new row
NextMarkId(rows) ==
    IF rows = {} THEN 1 ELSE SetMax({m.id : m \in rows}) + 1

\* Mark(user_id=..., question_id=..., mark_type=..., notes=...)
NewMark(id, u, q, t, n) ==
    [id |-> id, user_id |-> u, question_id |-> q, mark_type |-> t, notes |-> n]

\* existing_mark.notes = notes; commit
UpdateNotes(rows, id, n) ==
    {IF m.id = id THEN [m EXCEPT !.notes = n] ELSE m : m \in rows}

IdleMarker == [pc |-> "idle", user_id |-> 0, question_id |-> 0,
               mark_type |-> "review", notes |-> NoNotes, existing |-> NoMark]

\* mark_question up to the end of create_mark's query: the question is
\* looked up (404 if missing), then the triple's existing mark
MarkQuery(w, u, q, t, n) ==
    /\ marker[w].pc = "idle"
    /\ Cardinality(marks) + Cardinality({x \in Workers : marker[x].pc # "idle"}) < MaxMarks
    /\ IF GetQuestionById(catalog, q) = NoQuestion
       THEN UNCHANGED marker
       ELSE \E e \in ExistingMarks(marks, u, q, t) :
                marker' = [marker EXCEPT ![w] =
                    [pc |-> "write", user_id |-> u, question_id |-> q,
                     mark_type |-> t, notes |-> n, existing |-> e]]
    /\ UNCHANGED <<marks, importVars, analytics, peer, actVars, chatVars, restVars>>

\* the rest of create_mark: update the row found, or add a new one; commit
MarkWrite(w) ==
    /\ marker[w].pc = "write"
    /\ marks' = IF marker[w].existing # NoMark
                THEN UpdateNotes(marks, marker[w].existing, marker[w].notes)
                ELSE marks \cup {NewMark(NextMarkId(marks), marker[w].user_id,
                                         marker[w].question_id, marker[w].mark_type,
                                         marker[w].notes)}
    /\ marker' = [marker EXCEPT ![w] = IdleMarker]
    /\ UNCHANGED <<importVars, analytics, peer, actVars, chatVars, restVars>>

\* remove_mark: the user's row with that id, if there is one, is deleted
RemoveMark(u, id) ==
    /\ \E m \in marks : m.id = id /\ m.user_id = u
    /\ marks' = {m \in marks : ~(m.id = id /\ m.user_id = u)}
    /\ UNCHANGED <<marker, importVars, analytics, peer, actVars, chatVars, restVars>>

\* ------------------------------------------ import (scripts/import_questions)

ExternalIds == {"PHY09-CH01-MCQ0001", "PHY09-CH01-MCQ0002"}

\* the option mappings of the entries: two full ones and one too short
OptionMaps ==
    {[k \in {"a", "b"} |-> IF k = "a" THEN "o1" ELSE "o2"],
     [k \in {"a", "b"} |-> IF k = "a" THEN "o2" ELSE "o1"],
     [k \in {"a"} |-> "o1"]}

\* the entries of a JSON file: question, options, answer, metadata
CatalogEntries ==
    [question : {"text1", "text2"}, options : OptionMaps,
     answer : {"a", "A", "b", "c"},
     metadata : [question_id : ExternalIds, tags : {<<>>, <<"t1">>}]]

\* str.upper() on an answer key
Upper(k) ==
    CASE k = "a" -> "A"
      [] k = "b" -> "B"
      [] k = "c" -> "C"
      [] OTHER -> k

\* validate_question_data; the generated entries have every required field
ValidateQuestionData(data) ==
    /\ Cardinality(DOMAIN data.options) >= 2
    /\ Lower(data.answer) \in DOMAIN data.options

\* model_data of import_from_json
ModelData(data) ==
    [question_id |-> data.metadata.question_id, question_text |-> data.question,
     options |-> data.options, correct_answer |-> Upper(data.answer),
     tags |-> data.metadata.tags, is_active |-> TRUE]

\* import_question: the row with that question_id is updated (is_active is
\* not among the fields written), or a new row is added
ImportQuestion(rows, question_data) ==
    IF \E r \in rows : r.question_id = question_data.question_id
    THEN {IF r.question_id = question_data.question_id
          THEN [question_data EXCEPT !.is_active = r.is_active] ELSE r : r \in rows}
    ELSE rows \cup {question_data}

NoEntry == [question |-> "none"]

\* None
NoQuestionRow == [question_id |-> "none"]

\* get_question_by_question_id
GetQuestionByQuestionId(rows, id) ==
    IF \E r \in rows : r.question_id = id /\ r.is_active
    THEN CHOOSE r \in rows : r.question_id = id /\ r.is_active
    ELSE NoQuestionRow

\* import_from_json on a file with the one entry data, final commit included
ImportFromJson(data) ==
    /\ IF ValidateQuestionData(data)
       THEN /\ questionRows' = ImportQuestion(questionRows, ModelData(data))
            /\ entries' = [entries EXCEPT ![data.metadata.question_id] = data]
       ELSE UNCHANGED <<questionRows, entries>>
    /\ UNCHANGED <<fetched, marks, marker, analytics, peer, actVars, chatVars, restVars>>

\* a lookup by external id
FetchQuestion(id) ==
    /\ fetched' = [question_id |-> id, entry |-> entries[id],
                   row |-> GetQuestionByQuestionId(questionRows, id)]
    /\ UNCHANGED <<questionRows, entries, marks, marker, analytics, peer, actVars, chatVars, restVars>>

\* ------------------------------------------------------ specifications

\* the chat variables while only the activity log is exercised
ChatAtRest ==
    /\ today = 1
    /\ dbUser = NewUser
    /\ user = NewUser
    /\ apiKey = TRUE
    /\ agentExecutor = FALSE
    /\ conn = "closed"
    /\ NoRequest
    /\ atStart = NewUser
    /\ afterCheck = NewUser
    /\ served = 0
    /\ dbSession = "closed"

\* the activity variables while only the chat is exercised
ActivityAtRest ==
    /\ activities = <<>>
    /\ worker = [w \in Workers |-> IdleWorker]

\* no marks, no create_mark call under way, nothing imported yet
MarksAtRest ==
    /\ marks = {}
    /\ marker = [w \in Workers |-> IdleMarker]
    /\ questionRows = {}
    /\ entries = [id \in ExternalIds |-> NoEntry]
    /\ fetched = [question_id |-> "none", entry |-> NoEntry, row |-> NoQuestionRow]
    /\ analytics = NoAnalytics
    /\ peer = PeerAtRest

\* no analytics websocket, no check_answer request, the plain catalog
HubAtRest ==
    /\ MarksAtRest
    /\ registry = {}
    /\ sock = [s \in Sockets |-> "none"]
    /\ inbox = [s \in Sockets |-> <<>>]
    /\ bcast = NoBroadcast
    /\ req = NoRequestInProgress
    /\ answerResponse = NoAnswer
    /\ selection = NoSelection

PracticeAtRest ==
    /\ HubAtRest
    /\ catalog = BaseCatalog

\* the counters a stored row may hold when the process starts
InitCounts == {0, DailyLimit - 1, DailyLimit}

StoredUsers ==
    {r \in [subscription_tier : Tiers, ai_queries_today : InitCounts,
            last_ai_query_date : NoDate..MaxDay] :
        r.last_ai_query_date = NoDate => r.ai_queries_today = 0}

InitChat ==
    /\ ActivityAtRest
    /\ PracticeAtRest
    /\ today \in 1..MaxDay
    /\ dbUser \in {r \in StoredUsers : r.last_ai_query_date <= today}
    /\ user = dbUser
    /\ apiKey \in BOOLEAN
    /\ agentExecutor = FALSE
    /\ conn = "closed"
    /\ NoRequest
    /\ atStart = dbUser
    /\ afterCheck = dbUser
    /\ served = 0
    /\ dbSession = "closed"

\* the steps the service takes on its own once a message is in
ChatStep ==
    \/ VerifyRollover
    \/ RejectQuery
    \/ PassLimit
    \/ NoAgent
    \/ \E t \in ToolChoices : AgentPlanTool(t)
    \/ \E r \in Responses : AgentFinish(r)
    \/ AgentStopped
    \/ AgentRaise
    \/ CommitQuery
    \/ EmitChar
    \/ EndStream
    \/ EndpointAbort

NextChat ==
    \/ Connect
    \/ Disconnect
    \/ DayPasses
    \/ CancelStream
    \/ \E m \in Messages, md \in Modes : Receive(m, md, MaxRequests)
    \/ ChatStep

SpecChat == InitChat /\ [][NextChat]_vars

\* the service's own steps are sequential code: once a message is in, the
\* next statement runs (a call into the model returns or raises)
SpecChatLive == SpecChat /\ WF_vars(ChatStep)

\* one day of a base-tier user who used up the quota the day before, every
\* generation succeeding
DayRequests == DailyLimit + 2

InitQuotaDay ==
    /\ ActivityAtRest
    /\ PracticeAtRest
    /\ today = 2
    /\ dbUser = [subscription_tier |-> "base", ai_queries_today |-> DailyLimit,
                 last_ai_query_date |-> 1]
    /\ user = dbUser
    /\ apiKey = TRUE
    /\ agentExecutor = FALSE
    /\ conn = "closed"
    /\ NoRequest
    /\ atStart = dbUser
    /\ afterCheck = dbUser
    /\ served = 0
    /\ dbSession = "closed"

NextQuotaDay ==
    \/ Connect
    \/ \E md \in Modes : Receive(<<"hi">>, md, DayRequests)
    \/ VerifyRollover
    \/ RejectQuery
    \/ PassLimit
    \/ \E t \in ToolChoices : AgentPlanTool(t)
    \/ AgentFinish([has_output |-> TRUE, output |-> <<"a">>])
    \/ AgentStopped
    \/ CommitQuery
    \/ EmitChar
    \/ EndStream

SpecQuotaDay == InitQuotaDay /\ [][NextQuotaDay]_vars

InitActivity ==
    /\ ActivityAtRest
    /\ ChatAtRest
    /\ PracticeAtRest

\* answer submissions one after the other
NextActivity ==
    \E u \in Users, q \in Questions, c \in BOOLEAN : RecordUserActivity(u, q, c)

SpecActivity == InitActivity /\ [][NextActivity]_vars

\* answer submissions handled by concurrent workers
NextRace ==
    \E w \in Workers :
        \/ \E u \in Users, q \in Questions, c \in BOOLEAN : CallRecord(w, u, q, c)
        \/ QueryFirst(w)
        \/ QueryMax(w)
        \/ InsertCommit(w)

SpecRace == InitActivity /\ [][NextRace]_vars

\* answers checked while analytics websockets come and go
InitHub ==
    /\ ActivityAtRest
    /\ ChatAtRest
    /\ PracticeAtRest

NextHub ==
    \/ \E s \in Sockets :
           \/ WsConnect(s)
           \/ ClientDrops(s)
           \/ HandlerDisconnect(s)
           \/ HandlerError(s)
           \/ BroadcastSend(s)
    \/ CheckAnswer(1, PlainSubmission(1), MaxSubmissions)
    \/ CheckAnswerReturn

SpecHub == InitHub /\ [][NextHub]_vars

\* catalogs that differ in the chapter and the is_active flag of each
\* question; the chapter of question 1 is the one numbered 1
CatalogsByChapter ==
    {cat \in [Questions -> {[BaseQuestion EXCEPT !.chapter_number = n,
                                                 !.chapter_name = ChapterName(n),
                                                 !.is_active = a] :
                                n \in Chapters, a \in BOOLEAN}] :
        cat[1].chapter_number = 1}

\* seconds spent on an answer that carries a time
PracticeTime == 7

\* a right answer with a time, a wrong answer without one
StatSubmissions(q) == {Submission(q, "a", PracticeTime), Submission(q, "b", NoTime)}

\* window lengths asked of the analytics queries
WindowDays == 0..MaxDay

InitStats ==
    /\ ActivityAtRest
    /\ ChatAtRest
    /\ HubAtRest
    /\ catalog \in CatalogsByChapter

\* answers checked one after the other; the statistics are read off the tables
NextStats ==
    \/ \E u \in Users, q \in Questions :
           \E sub \in StatSubmissions(q) : CheckAnswer(u, sub, MaxSubmissions)
    \/ CheckAnswerReturn

SpecStats == InitStats /\ [][NextStats]_vars

\* one more answer than the recent-streak query reads
StreakRows == StreakWindow + 1

\* one user answers one question over and over, right or wrong
NextStreak ==
    \/ \E sub \in StatSubmissions(1) : CheckAnswer(1, sub, StreakRows)
    \/ CheckAnswerReturn

SpecStreak == InitHub /\ [][NextStreak]_vars

\* the chapter a catalog gives question q
ChapterOf(q) == ((q - 1) % NumChapters) + 1

\* catalogs that differ in the tags and the is_active flag of each question
CatalogsByTags ==
    [Questions -> {[BaseQuestion EXCEPT !.tags = ts, !.is_active = a] :
                       ts \in SUBSET Tags, a \in BOOLEAN}]

\* the filters asked: any tags, alone or with a value in one other dimension
Filters ==
    {QuestionFilter(d[1], d[2], ts, d[3]) :
        d \in {<<{}, {}, {}>>, <<{1}, {}, {}>>, <<{}, {"Hard"}, {}>>,
               <<{}, {}, {"multiple_choice"}>>},
        ts \in SUBSET Tags}

InitSelect ==
    /\ ActivityAtRest
    /\ ChatAtRest
    /\ HubAtRest
    /\ catalog \in {[q \in Questions |->
                        [cat[q] EXCEPT !.chapter_number = ChapterOf(q),
                                       !.chapter_name = ChapterName(ChapterOf(q))]] :
                    cat \in CatalogsByTags}

\* a user answers questions and asks for filtered and random questions
NextSelect ==
    \/ \E q \in Questions : CheckAnswer(1, PlainSubmission(q), MaxSubmissions)
    \/ CheckAnswerReturn
    \/ \E f \in Filters : FilterQuestions(1, f)
    \/ \E f \in Filters, e \in BOOLEAN : GetPracticeQuestion(1, f, e)

SpecSelect == InitSelect /\ [][NextSelect]_vars

\* the key sets an explanations column may have
ExplanationKeys == SUBSET {"a", "b", "A"}

\* catalogs that differ in the stored key of the correct answer, in the
\* keys that have an explanation and in whether question 1 is active
CatalogsByAnswer ==
    {[q \in Questions |->
         [BaseQuestion EXCEPT !.correct_answer = k,
                              !.explanations = e,
                              !.is_active = (q # 1 \/ a)]] :
        k \in AnswerKeys, e \in ExplanationKeys, a \in BOOLEAN}

\* an id no questions row has
MissingQuestion == NumQuestions + 1

InitCheck ==
    /\ ActivityAtRest
    /\ ChatAtRest
    /\ HubAtRest
    /\ catalog \in CatalogsByAnswer

\* one user submits answer keys in either case, also for unknown questions
NextCheck ==
    \/ \E q \in Questions \cup {MissingQuestion}, k \in AnswerKeys :
           CheckAnswer(1, Submission(q, k, NoTime), MaxSubmissions)
    \/ CheckAnswerReturn

SpecCheck == InitCheck /\ [][NextCheck]_vars

\* marks set and removed by concurrent workers
InitMarks ==
    /\ ActivityAtRest
    /\ ChatAtRest
    /\ PracticeAtRest

NextMarks ==
    \/ \E w \in Workers :
           \/ \E u \in Users, q \in Questions, t \in MarkTypes, n \in Notes :
                  MarkQuery(w, u, q, t, n)
           \/ MarkWrite(w)
    \/ \E u \in Users, id \in 1..MaxMarks : RemoveMark(u, id)

SpecMarks == InitMarks /\ [][NextMarks]_vars

\* answers checked and analytics reset; no analytics websocket is
\* connected, so each broadcast has nobody to send to
InitReset ==
    /\ ActivityAtRest
    /\ ChatAtRest
    /\ PracticeAtRest

NextReset ==
    \/ \E u \in Users, q \in Questions :
           CheckAnswer(u, PlainSubmission(q), MaxSubmissions + 1)
    \/ CheckAnswerReturn
    \/ \E u \in Users : ResetAnalytics(u)
    \/ ResetReturn

SpecReset == InitReset /\ [][NextReset]_vars

\* entries imported one file after the other, and looked up
InitImport ==
    /\ ActivityAtRest
    /\ ChatAtRest
    /\ PracticeAtRest

NextImport ==
    \/ \E data \in CatalogEntries : ImportFromJson(data)
    \/ \E id \in ExternalIds : FetchQuestion(id)

SpecImport == InitImport /\ [][NextImport]_vars

\* the limits and offsets asked
MaxLimit == 3

\* the filters asked with a limit and an offset: at most one chapter and at
\* most one tag
PageFilters ==
    {[QuestionFilter(cs, {}, ts, {}) EXCEPT !.limit = l, !.offset = o] :
        cs \in {{}, {1}}, ts \in {{}, {"t1"}}, l \in 0..MaxLimit, o \in 0..MaxLimit}

\* a user asks for pages of filtered questions
NextPage == \E f \in PageFilters : FilterQuestions(1, f)

SpecPage == InitSelect /\ [][NextPage]_vars

\* chapters of the insight runs, one question each
NumInsightChapters == 4

InsightCatalog ==
    [c \in 1..NumInsightChapters |->
        [BaseQuestion EXCEPT !.chapter_number = c, !.chapter_name = ChapterName(c)]]

\* what a user did in a chapter: <<answers in the window, right ones among
\* them, answers before the window>>
ChapterProfiles ==
    {<<4, 4, 1>>, <<5, 3, 0>>, <<5, 0, 0>>, <<10, 7, 0>>, <<20, 17, 0>>}

\* n answers of user 1 to question c on one day, the first k of them right
ChapterRows(c, n, k, from, day) ==
    [i \in 1..n |->
        NewActivity(1, Submission(c, IF i <= k THEN "a" ELSE "b", NoTime),
                    i <= k, from + i, day)]

RECURSIVE OldRows(_, _, _)
OldRows(order, prof, day) ==
    IF order = <<>> THEN <<>>
    ELSE LET c == Head(order)
         IN ChapterRows(c, prof[c][3], prof[c][3], 0, day)
                \o OldRows(Tail(order), prof, day)

RECURSIVE WindowRows(_, _, _)
WindowRows(order, prof, day) ==
    IF order = <<>> THEN <<>>
    ELSE LET c == Head(order)
         IN ChapterRows(c, prof[c][1], prof[c][2], prof[c][3], day)
                \o WindowRows(Tail(order), prof, day)

\* the chapters in rising and in falling order
ChapterOrders ==
    {[i \in 1..NumInsightChapters |-> i],
     [i \in 1..NumInsightChapters |-> NumInsightChapters + 1 - i]}

\* the activity tables of the insight runs: the early answers two days
\* back, then today's, chapter after chapter
InsightTables(now) ==
    {OldRows(order, prof, now - 2) \o WindowRows(order, prof, now) :
        order \in ChapterOrders,
        prof \in [1..NumInsightChapters -> ChapterProfiles]}

InitInsights ==
    /\ ChatAtRest
    /\ HubAtRest
    /\ worker = [w \in Workers |-> IdleWorker]
    /\ catalog = InsightCatalog
    /\ activities \in InsightTables(1)

\* the detailed analytics are asked for, over one day and over three
NextInsights == \E u \in Users, days \in {1, 3} : DetailedAnalytics(u, days)

SpecInsights == InitInsights /\ [][NextInsights]_vars

\* a user answers over several days and asks for the detailed analytics
NextConsistency ==
    \/ \E q \in Questions : CheckAnswer(1, PlainSubmission(q), MaxSubmissions)
    \/ CheckAnswerReturn
    \/ DayPasses
    \/ \E days \in 1..MaxDay : DetailedAnalytics(1, days)

SpecConsistency == InitHub /\ [][NextConsistency]_vars

\* two chat sessions of one base-tier user on one day; the first session
\* handles one message
InitPeers ==
    /\ ActivityAtRest
    /\ PracticeAtRest
    /\ today = 1
    /\ dbUser = [subscription_tier |-> "base", ai_queries_today |-> 0,
                 last_ai_query_date |-> 1]
    /\ user = dbUser
    /\ apiKey = TRUE
    /\ agentExecutor = FALSE
    /\ conn = "closed"
    /\ NoRequest
    /\ atStart = dbUser
    /\ afterCheck = dbUser
    /\ served = 0
    /\ dbSession = "closed"

NextPeers ==
    \/ Connect
    \/ \E m \in Messages, md \in Modes : Receive(m, md, 1)
    \/ VerifyRollover
    \/ PassLimit
    \/ \E t \in ToolChoices : AgentPlanTool(t)
    \/ \E r \in Responses : AgentFinish(r)
    \/ AgentStopped
    \/ AgentRaise
    \/ CommitQuery
    \/ EmitChar
    \/ EndStream
    \/ PeerConnect
    \/ PeerReceive(MaxRequests)
    \/ PeerCommit
    \/ PeerRaise

SpecPeers == InitPeers /\ [][NextPeers]_vars

\* --------------------------------------------------------------- claims

SamePair(a, b) == a.user_id = b.user_id /\ a.question_id = b.question_id

\* C1: under any interleaving of record_user_activity calls, no two stored
\* rows of one (user, question) pair carry the same attempt_number.
C1_NoDuplicateAttempt ==
    \A i, j \in 1..Len(activities) :
        (i < j /\ SamePair(activities[i], activities[j]))
            => activities[i].attempt_number # activities[j].attempt_number

\* C2: with submissions handled one after the other, the k-th row of a
\* (user, question) pair, in creation order, carries attempt_number k: 1 for
\* the first, max + 1 after, whatever other users or questions recorded.
C2_AttemptsCountUp ==
    \A i \in 1..Len(activities) :
        activities[i].attempt_number =
            Cardinality({j \in 1..i : SamePair(activities[j], activities[i])})

\* a pair's second attempt recorded after a row of another question of the
\* same user came in between
C2_Witness ==
    /\ Len(activities) >= 3
    /\ SamePair(activities[1], activities[3])
    /\ activities[2].user_id = activities[1].user_id
    /\ activities[2].question_id # activities[1].question_id
    /\ activities[3].attempt_number = 2

\* the handling of a message is over
Done == pc = "idle" /\ outcome \notin {"none", "pending"}

\* what the caller got: the returned string, or the chunks in emission order
Answer == IF mode = "stream" THEN Concat(chunks) ELSE reply

\* C3: right after the rollover check, before the limit test and before the
\* agent runs, a stored date other than today has been replaced by today
\* with the counter at 0, in the committed row; equal dates leave the row as
\* it was. From then on the stored date is the date the check read.
C3_LazyRollover ==
    /\ pc = "limit" =>
          /\ dbUser = IF atStart.last_ai_query_date # reqToday
                      THEN [atStart EXCEPT !.last_ai_query_date = reqToday,
                                           !.ai_queries_today = 0]
                      ELSE atStart
          /\ user = dbUser
          /\ ~invoked /\ signal = 0 /\ outcome = "pending"
          /\ chunks = <<>> /\ reply = <<>>
    /\ (pc \in {"limit", "agent", "commit", "emit"} \/ Done) =>
          dbUser.last_ai_query_date = reqToday

\* the check has just reset a counter that was above 0 on an earlier day
C3_Witness ==
    /\ pc = "limit"
    /\ atStart.last_ai_query_date \notin {NoDate, reqToday}
    /\ atStart.ai_queries_today > 0
    /\ dbUser.ai_queries_today = 0

\* C4: a message is rejected with status 429 exactly when, after the
\* rollover check, the tier is base and the counter is at least 50 (so a pro
\* user never is); a rejected message leaves the row as the check left it
\* and never reaches the agent.
C4_RejectIffBaseAtLimit ==
    /\ Done =>
          /\ (outcome = "rejected") <=>
                (afterCheck.subscription_tier = "base"
                    /\ afterCheck.ai_queries_today >= 50)
          /\ (outcome = "rejected") <=> (signal = 429)
          /\ outcome = "rejected" =>
                /\ dbUser = afterCheck /\ user = afterCheck
                /\ ~invoked /\ ~agentReturned
                /\ chunks = <<>> /\ reply = <<>>
    /\ pc \in {"agent", "commit", "emit"} =>
          /\ signal = 0
          /\ ~(afterCheck.subscription_tier = "base"
                  /\ afterCheck.ai_queries_today >= 50)

\* a streamed message of a base user at the limit has been rejected
C4_Witness ==
    /\ Done /\ outcome = "rejected" /\ mode = "stream"
    /\ afterCheck.ai_queries_today = 50

\* C5: starting from counter 50 on an earlier date, with every generation
\* succeeding, the first check of the day resets the counter, requests 1..50
\* are accepted with the counter equal to the request number, and request 51
\* and every later one is rejected with the counter left at 50.
C5_FiftyThenRejected ==
    /\ pc = "limit" =>
          /\ dbUser.last_ai_query_date = today
          /\ dbUser.ai_queries_today = IF served <= 50 THEN served - 1 ELSE 50
    /\ Done =>
          IF served <= 50
          THEN outcome = "success" /\ dbUser.ai_queries_today = served
          ELSE outcome = "rejected" /\ dbUser.ai_queries_today = 50

\* the 52nd request of the day has been rejected
C5_Witness == Done /\ served = 52 /\ outcome = "rejected"

\* C6: relative to the counter the rollover check left, the stored counter
\* is one higher once the agent invocation has returned and the commit ran,
\* and unchanged in every other case (rejected, no agent, invocation
\* raised); both modes.
C6_IncrementIffSuccess ==
    /\ pc \in {"limit", "agent", "commit"} =>
          dbUser.ai_queries_today = afterCheck.ai_queries_today
    /\ (Done \/ pc = "emit") =>
          /\ dbUser.ai_queries_today =
                afterCheck.ai_queries_today + (IF agentReturned THEN 1 ELSE 0)
          /\ user.ai_queries_today = dbUser.ai_queries_today
          /\ agentReturned <=> (outcome = "success")
    /\ (Done /\ outcome \in {"rejected", "unavailable", "error"}) =>
          dbUser.ai_queries_today = afterCheck.ai_queries_today

\* a streamed answer has been generated and counted
C6_Witness ==
    /\ Done /\ outcome = "success" /\ mode = "stream"
    /\ dbUser.ai_queries_today = afterCheck.ai_queries_today + 1

\* C7, as claimed: without an API key every message is answered with the
\* fixed "not available" message, the connection stays open and the counter
\* is not incremented.
C7_AlwaysUnavailableMessage ==
    (Done /\ ~apiKey) =>
        /\ Answer = UnavailableMsg
        /\ conn = "open"
        /\ dbUser.ai_queries_today = afterCheck.ai_queries_today

\* C7, amended: without an API key every message that passes the quota
\* check is answered with the fixed "not available" message, the connection
\* stays open, the agent is not invoked and the counter is not incremented.
C7_UnavailableWhenAccepted ==
    (Done /\ ~apiKey /\ outcome # "rejected") =>
        /\ outcome = "unavailable"
        /\ Answer = UnavailableMsg
        /\ conn = "open"
        /\ signal = 0
        /\ ~invoked
        /\ dbUser.ai_queries_today = afterCheck.ai_queries_today

\* a streamed message has been answered without an API key
C7_Witness ==
    Done /\ ~apiKey /\ outcome = "unavailable" /\ mode = "stream"

\* C8: while the agent handles a message it runs exactly one tool, the one
\* the message text selects (question id, else analytics, else general).
C8_RoutedToolOnly ==
    (pc = "agent" /\ iterations >= 1) =>
        /\ iterations = 1
        /\ lastTool = Route(message)

\* C9: the agent never goes beyond 3 iterations, an invocation that ended
\* gave an answer or the generic error string, and the handling of every
\* message comes to an end.
C9_Terminates ==
    /\ [](iterations <= 3)
    /\ []((Done /\ invoked) =>
            \/ outcome = "success" /\ agentReturned
            \/ outcome = "error" /\ Answer = ErrorMsg)
    /\ (pc # "idle") ~> Done

\* the executor's third iteration was used up and the message was answered
C9_Witness ==
    Done /\ response = [has_output |-> TRUE, output |-> StoppedOutput]

\* what get_ai_response returns for the agent outcome at hand
AtomicReturn ==
    IF ~agentExecutor THEN UnavailableMsg
    ELSE IF agentReturned THEN Output(response)
    ELSE ErrorMsg

\* C10: a stream yields the characters of the answer one by one, in order,
\* and ends; the chunks of a stream that ran to its end, concatenated, are the string
\* the atomic mode returns for the same agent outcome.
C10_StreamEqualsAtomic ==
    /\ pc = "emit" =>
          /\ pos <= Len(outputText) + 1
          /\ Len(chunks) = pos - 1
          /\ Concat(chunks) = SubSeq(outputText, 1, pos - 1)
    /\ (Done /\ outcome # "rejected" /\ ~cancelled) =>
          /\ Answer = AtomicReturn
          /\ mode = "stream" => Len(chunks) <= Len(AtomicReturn)

\* a streamed answer of two different characters has been emitted in full
C10_Witness ==
    /\ Done /\ mode = "stream" /\ outcome = "success" /\ ~cancelled
    /\ Len(outputText) >= 2
    /\ outputText[1] # outputText[2]
    /\ Len(chunks) = Len(outputText)

\* C11: once the endpoint has seen the client gone during a stream, no
\* chunk is yielded any more for that message, the stored row and the
\* session's copy are not written again, and the endpoint's database
\* session ends up closed together with the connection.
C11_CancelStopsAndReleases ==
    /\ [][cancelled => /\ dbUser' = dbUser
                       /\ cancelled' => (chunks' = chunks /\ user' = user)]_vars
    /\ []((cancelled /\ pc = "idle") => (dbSession = "closed" /\ conn = "closed"))
    /\ (cancelled /\ pc = "cancel") ~> (cancelled /\ dbSession = "closed")

\* a stream was cut before its last character and the endpoint has ended
C11_Witness ==
    /\ cancelled /\ pc = "idle"
    /\ Len(chunks) >= 1
    /\ Len(chunks) < Len(outputText)

\* C12: a failure while handling a message (quota rejection, generation
\* error) leaves the chat connection open; only a disconnect ends it.
C12_FailureKeepsConnection ==
    (Done /\ mode = "stream" /\ ~cancelled) => conn = "open"

\* C13: when a broadcast is over, its caller was not raised to, every
\* connection registered at its start either received the message or
\* failed and is no longer registered, and a failed send kept none of the
\* other connections from receiving the message.
C13_BestEffortBroadcast ==
    bcast.phase = "done" =>
        /\ ~bcast.raised
        /\ answerResponse.status = 200
        /\ \A s \in bcast.targets :
               \/ s \in bcast.failed /\ s \notin registry
               \/ /\ s \notin bcast.failed
                  /\ \E i \in 1..Len(inbox[s]) : inbox[s][i] = bcast.message

\* a broadcast to two connections: one send failed, the other arrived
C13_Witness ==
    /\ bcast.phase = "done"
    /\ bcast.failed # {}
    /\ bcast.targets \ bcast.failed # {}

NoActivity(u) == UserRowIds(activities, u) = {}

\* C15: no statistic fails on a zero denominator. For a user without
\* activity the overall accuracy and average time, today's accuracy and
\* streak, the average session length and the consistency score are 0;
\* a chapter, a day or a today without attempts has accuracy 0; no
\* division raises.
C15_ZeroDenominators ==
    \A u \in Users :
        LET st == GetUserStats(activities, u)
            rt == GetRealTimeStats(activities, catalog, u, today)
        IN /\ st.accuracy_percentage # DivisionError
           /\ st.average_time_per_question # DivisionError
           /\ rt.today.accuracy # DivisionError
           /\ rt.today.questions_attempted = 0 => rt.today.accuracy = 0
           /\ NoActivity(u) =>
                  /\ st.accuracy_percentage = 0
                  /\ st.average_time_per_question = 0
                  /\ rt.today.accuracy = 0
                  /\ rt.today.current_streak = 0
           /\ \A e \in rt.chapter_progress :
                  /\ e.accuracy_percentage # DivisionError
                  /\ e.attempted_questions = 0 => e.accuracy_percentage = 0
           /\ \A days \in WindowDays :
                  LET da == GetDetailedAnalytics(activities, catalog, u, days, today)
                  IN /\ da.average_session_length # DivisionError
                     /\ da.consistency_score # DivisionError
                     /\ NoActivity(u) =>
                            /\ da.average_session_length = 0
                            /\ da.consistency_score = 0
                     /\ \A e \in da.trends :
                            /\ e.accuracy # DivisionError
                            /\ e.avg_time_per_question # DivisionError
                            /\ e.questions_attempted = 0 => e.accuracy = 0

\* one user has answered, the other has not; a chapter with an active
\* question has no attempt of the first user
C15_Witness ==
    /\ ~NoActivity(1) /\ NoActivity(2)
    /\ GetRealTimeStats(activities, catalog, 2, today).today.questions_attempted = 0
    /\ \E e \in GetChapterProgress(activities, catalog, 1) : e.attempted_questions = 0
    /\ \E e \in GetChapterProgress(activities, catalog, 1) : e.attempted_questions > 0

ActiveChapters ==
    {n \in Chapters : \E q \in Questions :
        catalog[q].is_active /\ catalog[q].chapter_number = n}

\* C16: get_chapter_progress has exactly one entry per chapter with an
\* active question and none for another chapter; an entry's attempted and
\* correct counts are the user's rows of that chapter; an unattempted
\* chapter shows 0, 0 and accuracy 0; otherwise the accuracy is
\* correct/attempted x 100, as rounded to two decimals.
C16_ChapterProgress ==
    \A u \in Users :
        LET P == GetChapterProgress(activities, catalog, u)
        IN /\ {e.chapter_number : e \in P} = ActiveChapters
           /\ Cardinality(P) = Cardinality(ActiveChapters)
           /\ \A e \in P :
                  LET mine == {i \in 1..Len(activities) :
                                  /\ activities[i].user_id = u
                                  /\ catalog[activities[i].question_id].chapter_number
                                         = e.chapter_number}
                      right == {i \in mine : activities[i].is_correct}
                  IN /\ e.attempted_questions = Cardinality(mine)
                     /\ e.correct_answers = Cardinality(right)
                     /\ mine = {} => e.accuracy_percentage = 0
                     /\ mine # {} =>
                            /\ 2 * (e.accuracy_percentage * Cardinality(mine)
                                    - 10000 * Cardinality(right)) <= Cardinality(mine)
                            /\ 2 * (10000 * Cardinality(right)
                                    - e.accuracy_percentage * Cardinality(mine))
                                   <= Cardinality(mine)

\* a chapter with one right and one wrong answer of user 1, next to a
\* chapter that has only an inactive question
C16_Witness ==
    /\ ActiveChapters # Chapters
    /\ \E q \in Questions : ~catalog[q].is_active
    /\ \E e \in GetChapterProgress(activities, catalog, 1) :
           e.attempted_questions = 2 /\ e.correct_answers = 1

\* the user's right answers that are more recent than every wrong one
TrailingCorrect(u) ==
    LET ids == UserRowIds(activities, u)
        wrong == {i \in ids : ~activities[i].is_correct}
    IN {i \in ids : \A j \in wrong : j < i}

\* C17: the current streak of get_real_time_stats is the number of right
\* answers at the recent end of the user's history, back to the first
\* wrong one: 0 after a wrong answer or without answers.
C17_StreakIsTrailingRun ==
    \A u \in Users :
        GetRealTimeStats(activities, catalog, u, today).today.current_streak
            = Cardinality(TrailingCorrect(u))

\* the matches the filter rule gives: active, chapter, difficulty and type
\* as asked, and at least one of the requested tags
MatchesAnyTag(f) ==
    {q \in Questions :
        /\ catalog[q].is_active
        /\ f.chapter_numbers # {} => catalog[q].chapter_number \in f.chapter_numbers
        /\ f.difficulty_levels # {} =>
               catalog[q].difficulty_level \in f.difficulty_levels
        /\ f.question_types # {} => catalog[q].question_type \in f.question_types
        /\ f.tags # {} => catalog[q].tags \cap f.tags # {}}

\* C18: a question matches the tag dimension when it has at least one of
\* the requested tags, and the tag dimension is combined with chapter,
\* difficulty and type by AND, in the filter query and the random query.
C18_TagFilterIsOr ==
    /\ selection.kind = "filter" =>
           /\ selection.total_count = Cardinality(MatchesAnyTag(selection.filters))
           /\ {selection.questions[i] : i \in 1..Len(selection.questions)}
                  = MatchesAnyTag(selection.filters)
    /\ selection.kind = "random" =>
           /\ selection.status = 200 =>
                  selection.question \in MatchesAnyTag(selection.filters)
           /\ (selection.status = 404 /\ ~selection.exclude_attempted) =>
                  MatchesAnyTag(selection.filters) = {}

\* the candidates of a random query by the rule: matching, and not yet
\* attempted by the user when that is asked
CandidateSet(rows, f, u, e) ==
    {q \in MatchesAnyTag(f) :
        e => \A i \in 1..Len(rows) :
                 ~(rows[i].user_id = u /\ rows[i].question_id = q)}

\* C19: the random query returns only candidates (active, matching every
\* supplied filter, unattempted when asked), can return each of them, and
\* answers 404 when there is none.
C19_RandomFromCandidates ==
    /\ selection.kind = "random" =>
           LET C == CandidateSet(selection.rows, selection.filters,
                                 selection.user_id, selection.exclude_attempted)
           IN /\ selection.status = 200 => selection.question \in C
              /\ C = {} => selection.status = 404
              /\ selection.status \in {200, 404}
    /\ \A f \in Filters, e \in BOOLEAN :
           \A q \in CandidateSet(activities, f, 1, e) :
               ENABLED (GetPracticeQuestion(1, f, e) /\ selection'.question = q)

\* two answer keys are the same letter, whatever their case
SameLetter(x, y) == \E c \in {{"a", "A"}, {"b", "B"}} : x \in c /\ y \in c

\* C20: an answered check_answer call reports is_correct exactly when the
\* submitted key and the stored key are the same letter regardless of
\* case, has recorded an activity row of the user and question with that
\* is_correct and the submitted answer, and returns the stored
\* correct_answer as stored together with the submitted answer.
C20_CaseInsensitiveCheck ==
    (req.pc = "done" /\ answerResponse.status = 200) =>
        LET sub == req.submission
            stored == catalog[sub.question_id].correct_answer
            row == activities[Len(activities)]
        IN /\ answerResponse.is_correct = SameLetter(sub.user_answer, stored)
           /\ Len(activities) >= 1
           /\ row.user_id = req.user_id
           /\ row.question_id = sub.question_id
           /\ row.user_answer = sub.user_answer
           /\ row.is_correct = answerResponse.is_correct
           /\ answerResponse.correct_answer = stored
           /\ answerResponse.user_answer = sub.user_answer

\* the stored key is "A", the submitted key "a": right, and "A" is returned
C20_Witness ==
    /\ req.pc = "done" /\ answerResponse.status = 200
    /\ req.submission.user_answer = "a"
    /\ answerResponse.correct_answer = "A"
    /\ answerResponse.is_correct
    /\ activities[Len(activities)].is_correct

\* C21: the explanation of an answered check_answer call is the text
\* stored under the submitted key when the mapping has that key, else the
\* text stored under the correct key when the mapping has that one, else
\* none; keys are looked up as they are written, also when they differ
\* from a stored key by case only.
C21_ExplanationPreference ==
    (req.pc = "done" /\ answerResponse.status = 200) =>
        LET given == req.submission.user_answer
            stored == catalog[req.submission.question_id].correct_answer
            keys == catalog[req.submission.question_id].explanations
        IN /\ given \in keys => answerResponse.explanation = <<"explanation", given>>
           /\ (given \notin keys /\ stored \in keys) =>
                  answerResponse.explanation = <<"explanation", stored>>
           /\ (given \notin keys /\ stored \notin keys) =>
                  answerResponse.explanation = <<>>

\* the answer "A" to a question whose correct key is "a", with both keys
\* in the mapping: the text stored under "A" is returned
C21_Witness ==
    /\ req.pc = "done" /\ answerResponse.status = 200
    /\ answerResponse.is_correct
    /\ req.submission.user_answer = "A"
    /\ answerResponse.correct_answer = "a"
    /\ catalog[req.submission.question_id].explanations = {"a", "A"}
    /\ answerResponse.explanation = <<"explanation", "A">>

\* C22: whatever create_mark and remove_mark calls have run, and however
\* they interleaved, no two rows of the marks table have the same user,
\* question and mark type.
C22_OneMarkPerTriple ==
    \A m1, m2 \in marks :
        (m1.user_id = m2.user_id /\ m1.question_id = m2.question_id
             /\ m1.mark_type = m2.mark_type) => m1 = m2

\* C23: a step that is not a reset leaves every existing activity row as
\* it was, at its place in the table; a reset by user U leaves no row of U
\* and leaves the rows of the other users as they were, in their order.
C23_RowsImmutableButReset ==
    [][IF req'.pc = "resetting"
       THEN /\ \A i \in 1..Len(activities') : activities'[i].user_id # req'.user_id
            /\ \A u \in Users \ {req'.user_id} :
                   SelectSeq(activities', LAMBDA r : r.user_id = u)
                       = SelectSeq(activities, LAMBDA r : r.user_id = u)
            /\ Len(activities') =
                   Cardinality({i \in 1..Len(activities) :
                                    activities[i].user_id # req'.user_id})
       ELSE /\ Len(activities') >= Len(activities)
            /\ SubSeq(activities', 1, Len(activities)) = activities]_vars

\* a reset by user 1 has just purged two rows and kept a row of user 2
C23_Witness ==
    /\ req.pc = "resetting" /\ req.user_id = 1
    /\ answerResponse.deleted_activities = 2
    /\ Len(activities) = 1
    /\ activities[1].user_id = 2
    /\ activities[1].attempt_number = 1

\* C24: a question fetched by its external id has the question text, the
\* options, the correct answer and the tags of the entry that was imported
\* last under that id.
C24_ImportRoundTrip ==
    (fetched.row # [question_id |-> "none"]) =>
        LET e == fetched.entry
        IN /\ fetched.row.question_text = e.question
           /\ fetched.row.options = e.options
           /\ fetched.row.correct_answer = e.answer
           /\ fetched.row.tags = e.metadata.tags

\* the active questions a filter with at most one tag asks for
PageMatches(f) ==
    {q \in Questions :
        /\ catalog[q].is_active
        /\ f.chapter_numbers = {} \/ catalog[q].chapter_number \in f.chapter_numbers
        /\ f.difficulty_levels = {} \/ catalog[q].difficulty_level \in f.difficulty_levels
        /\ f.question_types = {} \/ catalog[q].question_type \in f.question_types
        /\ f.tags = {} \/ f.tags \cap catalog[q].tags # {}}

AreaRows(c) ==
    {i \in 1..Len(activities) :
        /\ activities[i].user_id = analytics.user_id
        /\ activities[i].completed_at >= today - analytics.days
        /\ catalog[activities[i].question_id].chapter_name = c}

AreaRight(c) == Cardinality({i \in AreaRows(c) : activities[i].is_correct})

AreaTotal(c) == Cardinality(AreaRows(c))

AreaNames == {catalog[q].chapter_name : q \in DOMAIN catalog}

WeakChapters ==
    {c \in AreaNames : AreaTotal(c) >= 5 /\ AreaRight(c) * 100 < 70 * AreaTotal(c)}

StrongChapters ==
    {c \in AreaNames : AreaTotal(c) >= 5 /\ AreaRight(c) * 100 >= 85 * AreaTotal(c)}

\* accuracy of chapter a is at most that of chapter b
AreaLeq(a, b) == AreaRight(a) * AreaTotal(b) <= AreaRight(b) * AreaTotal(a)

Min3(n) == IF n < 3 THEN n ELSE 3

\* C26: the improvement areas are chapters with at least 5 answers in the
\* window and accuracy below 70%, in ascending order of accuracy, the 3
\* lowest when there are more; the strengths are chapters with at least 5
\* answers and accuracy of at least 85%, in descending order, the 3 highest
\* when there are more; no chapter is in both lists.
C26_AreasAndStrengths ==
    analytics.user_id # 0 =>
        LET imp == analytics.result.improvement_areas
            str == analytics.result.strengths
            impNames == {imp[i].name : i \in 1..Len(imp)}
            strNames == {str[i].name : i \in 1..Len(str)}
        IN /\ impNames \subseteq WeakChapters
           /\ Len(imp) = Min3(Cardinality(WeakChapters))
           /\ Cardinality(impNames) = Len(imp)
           /\ \A i, j \in 1..Len(imp) : i < j => AreaLeq(imp[i].name, imp[j].name)
           /\ \A c \in WeakChapters \ impNames :
                  \A i \in 1..Len(imp) : AreaLeq(imp[i].name, c)
           /\ strNames \subseteq StrongChapters
           /\ Len(str) = Min3(Cardinality(StrongChapters))
           /\ Cardinality(strNames) = Len(str)
           /\ \A i, j \in 1..Len(str) : i < j => AreaLeq(str[j].name, str[i].name)
           /\ \A c \in StrongChapters \ strNames :
                  \A i \in 1..Len(str) : AreaLeq(c, str[i].name)
           /\ impNames \cap strNames = {}

\* four chapters qualify as improvement areas and three are listed, lowest
\* accuracy first
C26_Witness ==
    /\ analytics.user_id = 1
    /\ Cardinality(WeakChapters) = 4
    /\ Len(analytics.result.improvement_areas) = 3
    /\ analytics.result.improvement_areas[1].accuracy = 0
    /\ analytics.result.improvement_areas[3].accuracy = 60
    /\ analytics.result.strengths = <<>>

\* C27: for a window of at least one day the consistency score of the
\* detailed analytics lies between 0 and 100 (here in tenths of a percent).
C27_ConsistencyInRange ==
    (analytics.user_id # 0 /\ analytics.days >= 1) =>
        /\ analytics.result.consistency_score >= 0
        /\ analytics.result.consistency_score <= 1000

\* C28: with two chat sessions of one user, each with its own copy of the
\* user row, and no date rollover in between, the stored ai_queries_today
\* equals the number of messages the two sessions answered successfully,
\* whenever neither session is in the middle of a message.
C28_NoLostIncrement ==
    (pc = "idle" /\ peer.pc = "idle") =>
        dbUser.ai_queries_today =
            (IF outcome = "success" THEN 1 ELSE 0) + peer.answered

\* C29: a check_answer call for a question id that no row has, or whose row
\* is inactive, ends at once with HTTP 404 and leaves the activity table,
\* the broadcast hub and every inbox as they were.
C29_NotFoundChangesNothing ==
    [][(req' # req
            /\ ~(/\ req'.submission.question_id \in DOMAIN catalog
                 /\ catalog[req'.submission.question_id].is_active))
       => /\ req'.pc = "done"
          /\ answerResponse'.status = 404
          /\ activities' = activities
          /\ bcast' = bcast
          /\ inbox' = inbox
          /\ registry' = registry]_vars

\* an answer to the inactive question 1 was refused after an answer to
\* question 2 had been recorded; the table still holds that one row
C29_Witness ==
    /\ req.pc = "done"
    /\ answerResponse.status = 404
    /\ req.submission.question_id = 1
    /\ ~catalog[1].is_active
    /\ Len(activities) = 1
    /\ activities[1].question_id = 2
    /\ bcast.message.type = "stats_update"

\* C30: a connection whose analytics websocket handler has ended, for a
\* disconnect or for any other error, is no longer in the hub's registry.
C30_RegistryOnlyLive ==
    \A s \in Sockets : sock[s] = "ended" => s \notin registry

====
